---------------------------- MODULE Spec2Model ----------------------------
(***************************************************************************)
(* A model of the pyRevit forms toolkit (pyrevitlib/pyrevit/forms):        *)
(* SelectFromList, SelectFromCheckBoxes, CommandSwitchWindow, ProgressBar  *)
(* and SearchPrompt.  One dialog object is alive per behaviour; the        *)
(* variable dlg says which class it is.  Python strings are sequences of   *)
(* one-character strings; Python values that end up in a response are      *)
(* tagged records.                                                         *)
(***************************************************************************)
EXTENDS Integers, Sequences, FiniteSets, TLC

VARIABLES
    dlg,            \* class of the dialog: "list", "check", "switch", "progress",
                    \* "search", or "window" for a plain WPFWindow
    win,            \* "open", "closed" (Close() was called) or "error" (__init__ raised)
    closed_by,      \* the user gesture that closed the window ("none" while open)
    response,       \* self.response
    search_tb,      \* self.search_tb.Text
    clrsearch_b,    \* self.clrsearch_b.Visibility
    _context,       \* self._context
    ItemsSource,    \* self.list_lb.ItemsSource
    SelectedItems,  \* self.list_lb.SelectedItems, as positions of ItemsSource
    multiselect,    \* kwargs['multiselect'] (list_lb.SelectionMode is Extended iff TRUE)
    shown_src,      \* bookkeeping: the context index each row of ItemsSource came from
    checked_only,   \* SelectFromCheckBoxes.checked_only
    expected,       \* bookkeeping: per context entry, the state the last check,
                    \* uncheck or toggle gesture that touched it should have left
    gesture,        \* bookkeeping: the check, uncheck or toggle handler of
                    \* SelectFromCheckBoxes that ran last, "none" when another
                    \* handler of the open dialog ran after it
    _switches,      \* self._switches (CommandSwitchWindow, SearchPrompt)
    configs,        \* kwargs['config'] of CommandSwitchWindow
    button_list,    \* self.button_list.Children
    sender,         \* the sender of the last process_option: a position of
                    \* button_list, or 0 for None
    _search_db,     \* SearchPrompt._search_db
    _search_results, \* SearchPrompt._search_results
    _result_index,  \* SearchPrompt._result_index
    directmatch_tb, \* SearchPrompt.directmatch_tb.Text
    wordsmatch_tb,  \* SearchPrompt.wordsmatch_tb.Text
    tab_icon,       \* SearchPrompt.tab_icon.Visibility
    return_icon,    \* SearchPrompt.return_icon.Visibility
    max_value,      \* ProgressBar.max_value
    new_value,      \* ProgressBar.new_value
    step,           \* ProgressBar.step
    cancelled,      \* ProgressBar.cancelled
    cancel_b,       \* ProgressBar.cancel_b: its Content and Visibility
    indeterminate,  \* ProgressBar.pbar.IsIndeterminate
    pbar,           \* ProgressBar.pbar: its Maximum and Value
    pc,             \* where the primary thread is: "idle", or in wait_async at
                    \* "poll" (the while test), "dispatch" or "return"
    func,           \* the callable given to wait_async: what it does when called
    worker,         \* the thread t of wait_async: "none", "started", "called"
                    \* (func has returned), "appended", "dead"
    returns,        \* the list returns of wait_async
    result,         \* what the last wait_async returned
    n_threads,      \* bookkeeping: threads started by the current wait_async
    n_calls,        \* bookkeeping: calls of func made by the current wait_async
    n_polls,        \* bookkeeping: loop tests of the current wait_async that found
                    \* the worker alive
    n_dispatch,     \* bookkeeping: _dispatch_updater calls of the current wait_async
    writes,         \* bookkeeping: the fields each thread has written
    reads,          \* bookkeeping: the fields each thread has read
    elements,       \* the Visibility of each element of a plain WPFWindow
    raised,         \* the exception the last hide_element, show_element or
                    \* toggle_element call ended with, "none" when it returned
    call            \* bookkeeping: the last such call: its name, its arguments
                    \* (element positions) and the elements before it

baseVars == <<dlg, win, closed_by, response, search_tb>>

listVars == <<clrsearch_b, _context, ItemsSource, SelectedItems, multiselect,
              shown_src, checked_only, expected, gesture>>

switchVars == <<_switches, configs, button_list, sender>>

searchVars == <<_search_db, _search_results, _result_index, directmatch_tb,
                wordsmatch_tb, tab_icon, return_icon>>

progressVars == <<max_value, new_value, step, cancelled, cancel_b,
                  indeterminate, pbar, pc, func, worker, returns, result,
                  n_threads, n_calls, n_polls, n_dispatch, writes, reads>>

windowVars == <<elements, raised, call>>

vars == <<baseVars, listVars, switchVars, searchVars, progressVars, windowVars>>

\* the fields of a dialog of another class: they do not exist, and stay as
\* they are
NoListFields ==
    /\ clrsearch_b = "Collapsed" /\ ItemsSource = <<>> /\ SelectedItems = {}
    /\ multiselect = TRUE /\ shown_src = <<>> /\ checked_only = FALSE
    /\ expected = <<>> /\ gesture = "none"

NoWindowFields ==
    /\ elements = <<>> /\ raised = "none"
    /\ call = [op |-> "none", args |-> <<>>, before |-> <<>>]

NoSwitchFields == configs = <<>> /\ button_list = <<>> /\ sender = 0

NoSearchFields ==
    /\ _search_db = <<>> /\ _search_results = <<>> /\ _result_index = 0
    /\ directmatch_tb = <<>> /\ wordsmatch_tb = <<>>
    /\ tab_icon = "Collapsed" /\ return_icon = "Collapsed"

NoProgressFields ==
    /\ max_value = 1 /\ new_value = 0 /\ step = 0 /\ cancelled = FALSE
    /\ cancel_b = [Content |-> "Cancel", Visibility |-> "Collapsed"]
    /\ indeterminate = FALSE /\ pbar = [Maximum |-> 1, Value |-> 0]
    /\ pc = "idle" /\ func = [kind |-> "none"] /\ worker = "none"
    /\ returns = <<>> /\ result = [t |-> "None"]
    /\ n_threads = 0 /\ n_calls = 0 /\ n_polls = 0 /\ n_dispatch = 0
    /\ writes = [th \in {"primary", "worker"} |-> {}]
    /\ reads = [th \in {"primary", "worker"} |-> {}]

-----------------------------------------------------------------------------
(* Bounds of the model. *)

MaxContext == 2

-----------------------------------------------------------------------------
(* Python str operations, on sequences of characters. *)

LowerChar(c) ==
    CASE c = "A" -> "a"
      [] c = "B" -> "b"
      [] c = "S" -> "s"
      [] OTHER -> c

\* ord(c) for the characters the model uses
Code(c) ==
    CASE c = " " -> 32
      [] c = "/" -> 47
      [] c = "A" -> 65
      [] c = "B" -> 66
      [] c = "S" -> 83
      [] c = "a" -> 97
      [] c = "b" -> 98
      [] c = "s" -> 115
      [] OTHER -> 0

\* str.lower()
Lower(s) == [i \in 1..Len(s) |-> LowerChar(s[i])]

\* sub in s
Contains(s, sub) ==
    \E i \in 0..(Len(s) - Len(sub)) : SubSeq(s, i + 1, i + Len(sub)) = sub

\* s.startswith(prefix)
StartsWith(s, prefix) ==
    /\ Len(prefix) <= Len(s)
    /\ SubSeq(s, 1, Len(prefix)) = prefix

RECURSIVE LStrip(_)
LStrip(s) ==
    IF s # <<>> /\ Head(s) = " " THEN LStrip(Tail(s)) ELSE s

RECURSIVE RStrip(_)
RStrip(s) ==
    IF s # <<>> /\ s[Len(s)] = " " THEN RStrip(SubSeq(s, 1, Len(s) - 1)) ELSE s

\* str.strip()
Strip(s) == RStrip(LStrip(s))

\* s.replace(old, new), old not empty
RECURSIVE Replace(_, _, _)
Replace(s, old, new) ==
    IF Len(s) < Len(old) THEN s
    ELSE IF SubSeq(s, 1, Len(old)) = old
         THEN new \o Replace(SubSeq(s, Len(old) + 1, Len(s)), old, new)
         ELSE <<Head(s)>> \o Replace(Tail(s), old, new)

\* s.split(' '): the list of the pieces between single spaces
RECURSIVE SplitFrom(_, _)
SplitFrom(s, cur) ==
    IF s = <<>> THEN <<cur>>
    ELSE IF Head(s) = " " THEN <<cur>> \o SplitFrom(Tail(s), <<>>)
         ELSE SplitFrom(Tail(s), Append(cur, Head(s)))

Split(s) == SplitFrom(s, <<>>)

\* a < b for Python str: lexicographic on code points
RECURSIVE StrLess(_, _)
StrLess(a, b) ==
    IF b = <<>> THEN FALSE
    ELSE IF a = <<>> THEN TRUE
    ELSE IF Code(Head(a)) # Code(Head(b)) THEN Code(Head(a)) < Code(Head(b))
    ELSE StrLess(Tail(a), Tail(b))

\* the list with x put before the first element greater than it
RECURSIVE InsertSorted(_, _)
InsertSorted(sorted_list, x) ==
    IF sorted_list = <<>> THEN <<x>>
    ELSE IF StrLess(x, Head(sorted_list)) THEN <<x>> \o sorted_list
         ELSE <<Head(sorted_list)>> \o InsertSorted(Tail(sorted_list), x)

\* sorted(list of str)
RECURSIVE Sorted(_)
Sorted(xs) ==
    IF xs = <<>> THEN <<>>
    ELSE InsertSorted(Sorted(SubSeq(xs, 1, Len(xs) - 1)), xs[Len(xs)])

-----------------------------------------------------------------------------
(* Python values. *)

None == [t |-> "None"]
Str(s) == [t |-> "str", s |-> s, id |-> 0]
\* an object that is not a string, known by its identity
Obj(i) == [t |-> "obj", s |-> <<>>, id |-> i]
\* a list of context entries, each given by its index in the context
ListOf(seq) == [t |-> "list", v |-> seq]

\* sequences over S of length at most n
SeqUpTo(S, n) == UNION {[1..k -> S] : k \in 0..n}

\* the elements of a set of integers, ascending
RECURSIVE Ascending(_)
Ascending(S) ==
    IF S = {} THEN <<>>
    ELSE LET m == CHOOSE x \in S : \A y \in S : x <= y
         IN  <<m>> \o Ascending(S \ {m})

-----------------------------------------------------------------------------
(* SelectFromList *)

\* the string forms the items of a list context are drawn from
ListItemStrs == { <<"a">>, <<"A", "b">>, <<"b">> }

\* a context item: a str, or an object (RevisionOption, SheetOption) with the
\* string form s
ListItems == [kind : {"str", "obj"}, s : ListItemStrs]

\* what the user types into the search box
ListSearchTexts == { <<>>, <<"A">>, <<"b">>, <<"a", "B">> }

\* the Python value of context entry i
ItemValue(ctx, i) == IF ctx[i].kind = "str" THEN Str(ctx[i].s) ELSE Obj(i)

\* safe_strtype(option)
safe_strtype(ctx, i) == Str(ctx[i].s)

\* the elements of xs as a set
Range(xs) == {xs[k] : k \in 1..Len(xs)}

\* a faulty variant of MatchesFilter: the filter text is compared as typed
MatchesFilterCaseSensitive(ctx, i, option_filter) ==
    Contains(Lower(ctx[i].s), option_filter)

\* option_filter.lower() in safe_strtype(option).lower()
MatchesFilter(ctx, i, option_filter) ==
    Contains(Lower(safe_strtype(ctx, i).s), Lower(option_filter))

\* the indices of [option for option in self._context if <filter matches>]
RECURSIVE FilteredFrom(_, _, _)
FilteredFrom(ctx, i, option_filter) ==
    IF i > Len(ctx) THEN <<>>
    ELSE (IF MatchesFilter(ctx, i, option_filter) THEN <<i>> ELSE <<>>)
         \o FilteredFrom(ctx, i + 1, option_filter)

\* SelectFromList._list_options: the context indices listed, in order
list_options_src(ctx, option_filter) ==
    IF option_filter # <<>>
    THEN FilteredFrom(ctx, 1, option_filter)
    ELSE [i \in 1..Len(ctx) |-> i]

\* SelectFromList._list_options: the new list_lb.ItemsSource
list_options(ctx, option_filter) ==
    LET src == list_options_src(ctx, option_filter)
    IN  [k \in 1..Len(src) |-> safe_strtype(ctx, src[k])]

\* SelectFromList._get_options: the context entries whose string form is among
\* the selected items
get_options(ctx, items, selected) ==
    LET chosen == {items[p] : p \in selected}
    IN  Ascending({i \in 1..Len(ctx) : safe_strtype(ctx, i) \in chosen})

ListInit ==
    /\ NoWindowFields
    /\ _switches = <<>> /\ NoSwitchFields /\ NoSearchFields /\ NoProgressFields
    /\ dlg = "list"
    /\ win = "open"
    /\ closed_by = "none"
    /\ response = None
    /\ _context \in SeqUpTo(ListItems, MaxContext)
    /\ multiselect \in BOOLEAN
    /\ search_tb = <<>>
    /\ clrsearch_b = "Collapsed"
    /\ ItemsSource = list_options(_context, <<>>)
    /\ shown_src = list_options_src(_context, <<>>)
    /\ SelectedItems = {}
    /\ checked_only = FALSE
    /\ expected = <<>>
    /\ gesture = "none"

\* SelectFromList.search_txt_changed, after the user changed the text to txt
list_search_txt_changed(txt) ==
    /\ dlg = "list" /\ win = "open"
    /\ txt # search_tb
    /\ search_tb' = txt
    /\ clrsearch_b' = IF txt = <<>> THEN "Collapsed" ELSE "Visible"
    /\ ItemsSource' = list_options(_context, txt)
    /\ shown_src' = list_options_src(_context, txt)
    /\ SelectedItems' = {}
    /\ UNCHANGED <<dlg, win, closed_by, response, _context, multiselect,
                   checked_only, expected,
                   gesture>>
    /\ UNCHANGED <<windowVars, switchVars, searchVars, progressVars>>

\* SelectFromList.clear_search, on a click of the clear button: the two text
\* assignments run search_txt_changed, then the context itself is listed
list_clear_search ==
    /\ dlg = "list" /\ win = "open"
    /\ clrsearch_b = "Visible"
    /\ search_tb' = <<>>
    /\ clrsearch_b' = "Collapsed"
    /\ ItemsSource' = [i \in 1..Len(_context) |-> ItemValue(_context, i)]
    /\ shown_src' = [i \in 1..Len(_context) |-> i]
    /\ SelectedItems' = {}
    /\ UNCHANGED <<dlg, win, closed_by, response, _context, multiselect,
                   checked_only, expected,
                   gesture>>
    /\ UNCHANGED <<windowVars, switchVars, searchVars, progressVars>>

\* the user clicks row p of the list box
list_click_row(p) ==
    /\ dlg = "list" /\ win = "open"
    /\ p \in 1..Len(ItemsSource)
    /\ SelectedItems' =
          IF p \in SelectedItems THEN SelectedItems \ {p}
          ELSE IF multiselect THEN SelectedItems \cup {p}
          ELSE {p}
    /\ UNCHANGED <<dlg, win, closed_by, response, search_tb, clrsearch_b,
                   _context, ItemsSource, multiselect, shown_src, checked_only,
                   expected,
                   gesture>>
    /\ UNCHANGED <<windowVars, switchVars, searchVars, progressVars>>

\* SelectFromList.button_select
list_button_select ==
    /\ dlg = "list" /\ win = "open"
    /\ response' = ListOf(get_options(_context, ItemsSource, SelectedItems))
    /\ win' = "closed"
    /\ closed_by' = "select"
    /\ UNCHANGED <<dlg, search_tb, clrsearch_b, _context, ItemsSource,
                   SelectedItems, multiselect, shown_src, checked_only, expected,
                   gesture>>
    /\ UNCHANGED <<windowVars, switchVars, searchVars, progressVars>>

\* TemplateUserInputWindow.handle_input_key with args.Key == Key.Escape
handle_input_key_Escape ==
    /\ dlg \in {"list", "check"} /\ win = "open"
    /\ win' = "closed"
    /\ closed_by' = "escape"
    /\ UNCHANGED <<dlg, response, search_tb, clrsearch_b, _context, ItemsSource,
                   SelectedItems, multiselect, shown_src, checked_only, expected,
                   gesture>>
    /\ UNCHANGED <<windowVars, switchVars, searchVars, progressVars>>

\* the user closes the window with its close button
close_window ==
    /\ dlg \in {"list", "check", "switch", "search"} /\ win = "open"
    /\ win' = "closed"
    /\ closed_by' = "close"
    /\ UNCHANGED <<dlg, response, search_tb, clrsearch_b, _context, ItemsSource,
                   SelectedItems, multiselect, shown_src, checked_only, expected,
                   gesture>>
    /\ UNCHANGED <<windowVars, switchVars, searchVars, progressVars>>

ListNext ==
    \/ \E txt \in ListSearchTexts : list_search_txt_changed(txt)
    \/ list_clear_search
    \/ \E p \in 1..MaxContext : list_click_row(p)
    \/ list_button_select
    \/ handle_input_key_Escape
    \/ close_window

ListSpec == ListInit /\ [][ListNext]_vars

-----------------------------------------------------------------------------
(* SelectFromCheckBoxes *)

\* the names (and string forms) the check box items are drawn from
CheckNames == { <<"a">>, <<"A", "b">> }

\* an item passed in: an "option" implements name, state and __str__ (which
\* returns the name, as MyOption and SheetOption do); a "plain" item has no
\* state and no name attribute, only the string form s
CheckInputs ==
    [kind : {"option"}, s : CheckNames, state : BOOLEAN]
        \cup [kind : {"plain"}, s : CheckNames, state : {FALSE}]

CheckSearchTexts == { <<>>, <<"A">>, <<"b">> }

\* BaseCheckBoxItem(orig_item): name is getattr(item, 'name', ''), the string
\* form is name or str(item), the state is False
BaseCheckBoxItem(items, i) ==
    [wrapped |-> TRUE, item |-> i, name |-> <<>>, str |-> items[i].s,
     state |-> FALSE]

\* SelectFromCheckBoxes._verify_context: items without a state attribute are
\* wrapped, the others are kept
verify_context(items) ==
    [i \in 1..Len(items) |->
        IF items[i].kind = "plain"
        THEN BaseCheckBoxItem(items, i)
        ELSE [wrapped |-> FALSE, item |-> i, name |-> items[i].s,
              str |-> items[i].s, state |-> items[i].state]]

\* [checkbox for checkbox in self._context
\*  if checkbox_filter in checkbox.name.lower()], as context indices
RECURSIVE CheckFilteredFrom(_, _, _)
CheckFilteredFrom(ctx, i, checkbox_filter) ==
    IF i > Len(ctx) THEN <<>>
    ELSE (IF Contains(Lower(ctx[i].name), checkbox_filter) THEN <<i>> ELSE <<>>)
         \o CheckFilteredFrom(ctx, i + 1, checkbox_filter)

\* SelectFromCheckBoxes._list_options: the new list_lb.ItemsSource, the check
\* boxes given by their context indices
check_list_options(ctx, checkbox_filter) ==
    IF checkbox_filter # <<>>
    THEN CheckFilteredFrom(ctx, 1, Lower(checkbox_filter))
    ELSE [i \in 1..Len(ctx) |-> i]

\* a faulty variant of set_states: the loop runs over the whole context
set_states_context(ctx, current_list, state, flip) ==
    [i \in 1..Len(ctx) |->
        [ctx[i] EXCEPT !.state = IF flip THEN ~ctx[i].state ELSE state]]

\* the loop of SelectFromCheckBoxes._set_states over current_list
RECURSIVE set_states(_, _, _, _)
set_states(ctx, current_list, state, flip) ==
    IF current_list = <<>> THEN ctx
    ELSE LET i == Head(current_list)
             new == IF flip THEN ~ctx[i].state ELSE state
         IN  set_states([ctx EXCEPT ![i].state = new], Tail(current_list),
                        state, flip)

\* a faulty variant of check_response: the check boxes listed are returned
check_response_listed(ctx, items, only) ==
    IF only
    THEN ListOf(SelectSeq([i \in 1..Len(ctx) |-> i], LAMBDA i : ctx[i].state))
    ELSE ListOf([k \in 1..Len(items) |-> ctx[items[k]]])

\* the response SelectFromCheckBoxes.button_select stores
check_response(ctx, items, only) ==
    IF only
    THEN ListOf(SelectSeq([i \in 1..Len(ctx) |-> i], LAMBDA i : ctx[i].state))
    ELSE ListOf(ctx)

CheckInit ==
    /\ NoWindowFields
    /\ _switches = <<>> /\ NoSwitchFields /\ NoSearchFields /\ NoProgressFields
    /\ dlg = "check"
    /\ win = "open"
    /\ closed_by = "none"
    /\ response = None
    /\ \E items \in SeqUpTo(CheckInputs, MaxContext) :
          /\ _context = verify_context(items)
          /\ expected = [i \in 1..Len(items) |-> items[i].state]
    /\ checked_only \in BOOLEAN
    /\ multiselect = TRUE
    /\ search_tb = <<>>
    /\ clrsearch_b = "Collapsed"
    /\ ItemsSource = check_list_options(_context, <<>>)
    /\ shown_src = ItemsSource
    /\ SelectedItems = {}
    /\ gesture = "none"

\* SelectFromCheckBoxes.search_txt_changed, after the user changed the text
check_search_txt_changed(txt) ==
    /\ dlg = "check" /\ win = "open"
    /\ txt # search_tb
    /\ search_tb' = txt
    /\ clrsearch_b' = IF txt = <<>> THEN "Collapsed" ELSE "Visible"
    /\ ItemsSource' = check_list_options(_context, txt)
    /\ shown_src' = ItemsSource'
    /\ SelectedItems' = {}
    /\ UNCHANGED <<dlg, win, closed_by, response, _context, multiselect,
                   checked_only, expected>>
    /\ gesture' = "none"
    /\ UNCHANGED <<windowVars, switchVars, searchVars, progressVars>>

\* SelectFromCheckBoxes.clear_search
check_clear_search ==
    /\ dlg = "check" /\ win = "open"
    /\ clrsearch_b = "Visible"
    /\ search_tb' = <<>>
    /\ clrsearch_b' = "Collapsed"
    /\ ItemsSource' = [i \in 1..Len(_context) |-> i]
    /\ shown_src' = ItemsSource'
    /\ SelectedItems' = {}
    /\ UNCHANGED <<dlg, win, closed_by, response, _context, multiselect,
                   checked_only, expected>>
    /\ gesture' = "none"
    /\ UNCHANGED <<windowVars, switchVars, searchVars, progressVars>>

\* the user clicks row p of the list box (SelectionMode.Extended)
check_click_row(p) ==
    /\ dlg = "check" /\ win = "open"
    /\ p \in 1..Len(ItemsSource)
    /\ SelectedItems' =
          IF p \in SelectedItems THEN SelectedItems \ {p}
          ELSE SelectedItems \cup {p}
    /\ UNCHANGED <<dlg, win, closed_by, response, search_tb, clrsearch_b,
                   _context, ItemsSource, multiselect, shown_src, checked_only,
                   expected>>
    /\ gesture' = "none"
    /\ UNCHANGED <<windowVars, switchVars, searchVars, progressVars>>

\* SelectFromCheckBoxes._set_states(state, flip, selected); the list is bound
\* again at the end, which drops the selection
check_set_states(state, flip, selected) ==
    /\ dlg = "check" /\ win = "open"
    /\ LET current_list ==
              IF selected
              THEN [k \in 1..Cardinality(SelectedItems) |->
                       ItemsSource[Ascending(SelectedItems)[k]]]
              ELSE ItemsSource
       IN  /\ _context' = set_states(_context, current_list, state, flip)
           /\ expected' = [i \in 1..Len(expected) |->
                              IF i \in Range(current_list)
                              THEN (IF flip THEN ~expected[i] ELSE state)
                              ELSE expected[i]]
    /\ SelectedItems' = {}
    /\ UNCHANGED <<dlg, win, closed_by, response, search_tb, clrsearch_b,
                   ItemsSource, multiselect, shown_src, checked_only>>
    /\ UNCHANGED <<windowVars, switchVars, searchVars, progressVars>>

\* SelectFromCheckBoxes.toggle_all
toggle_all ==
    /\ dlg = "check"
    /\ check_set_states(TRUE, TRUE, FALSE)
    /\ gesture' = "toggle_all"

\* SelectFromCheckBoxes.check_all
check_all ==
    /\ dlg = "check"
    /\ check_set_states(TRUE, FALSE, FALSE)
    /\ gesture' = "check_all"

\* SelectFromCheckBoxes.uncheck_all
uncheck_all ==
    /\ dlg = "check"
    /\ check_set_states(FALSE, FALSE, FALSE)
    /\ gesture' = "uncheck_all"

\* SelectFromCheckBoxes.check_selected
check_selected ==
    /\ dlg = "check"
    /\ check_set_states(TRUE, FALSE, TRUE)
    /\ gesture' = "check_selected"

\* SelectFromCheckBoxes.uncheck_selected
uncheck_selected ==
    /\ dlg = "check"
    /\ check_set_states(FALSE, FALSE, TRUE)
    /\ gesture' = "uncheck_selected"

\* SelectFromCheckBoxes.button_select
check_button_select ==
    /\ dlg = "check" /\ win = "open"
    /\ response' = check_response(_context, ItemsSource, checked_only)
    /\ win' = "closed"
    /\ closed_by' = "select"
    /\ UNCHANGED <<dlg, search_tb, clrsearch_b, _context, ItemsSource,
                   SelectedItems, multiselect, shown_src, checked_only, expected,
                   gesture>>
    /\ UNCHANGED <<windowVars, switchVars, searchVars, progressVars>>

CheckNext ==
    \/ \E txt \in CheckSearchTexts : check_search_txt_changed(txt)
    \/ check_clear_search
    \/ \E p \in 1..MaxContext : check_click_row(p)
    \/ toggle_all
    \/ check_all
    \/ uncheck_all
    \/ check_selected
    \/ uncheck_selected
    \/ check_button_select
    \/ handle_input_key_Escape
    \/ close_window

CheckSpec == CheckInit /\ [][CheckNext]_vars

-----------------------------------------------------------------------------
(* CommandSwitchWindow *)

MaxSwitches == 2

OptionNames == { <<"a">>, <<"B">> }

SwitchNames == { <<"s">>, <<"a">> }

SwitchSearchTexts == { <<>>, <<"A">>, <<"b">> }

\* the config dicts tried: the names in D each get {'background': '0xF'}
ConfigChoices ==
    { [n \in D |-> <<"0", "x", "F">>] : D \in SUBSET {<<"a">>, <<"s">>} }

\* the tuple (a, b)
Tuple(a, b) == [t |-> "tuple", a |-> a, b |-> b]

\* d[key] = value on a dict
DictSet(d, key, value) ==
    [k \in DOMAIN d \cup {key} |-> IF k = key THEN value ELSE d[k]]

\* CommandSwitchWindow._set_config: the Background the item gets
set_config(bg) == Replace(bg, <<"0", "x">>, <<"#">>)

\* the ToggleButton made for a switch (no config is applied: see SwitchInit)
MakeToggle(switch) ==
    [kind |-> "toggle", Content |-> switch, IsChecked |-> FALSE,
     Visibility |-> "Visible", Background |-> <<>>]

\* the Button made for an option, with its config applied
MakeButton(option, cfg) ==
    [kind |-> "button", Content |-> option, IsChecked |-> FALSE,
     Visibility |-> "Visible",
     Background |-> IF cfg # <<>> /\ option \in DOMAIN cfg
                    THEN set_config(cfg[option]) ELSE <<>>]

\* {x.Content: x.IsChecked for x in switches}, switches being the children
\* that have IsChecked
RECURSIVE switch_dict(_)
switch_dict(children) ==
    IF children = <<>> THEN <<>>
    ELSE LET x == children[Len(children)]
             d == switch_dict(SubSeq(children, 1, Len(children) - 1))
         IN  IF x.kind = "toggle" THEN DictSet(d, x.Content, x.IsChecked) ELSE d

\* a faulty variant of setup_response: the switches are reported as they were created
setup_response_unchecked(switches, children, resp) ==
    IF switches # <<>>
    THEN Tuple(resp, switch_dict([k \in 1..Len(children) |->
                                     [children[k] EXCEPT !.IsChecked = FALSE]]))
    ELSE resp

\* CommandSwitchWindow._setup_response: the new self.response
setup_response(switches, children, resp) ==
    IF switches # <<>> THEN Tuple(resp, switch_dict(children)) ELSE resp

\* CommandSwitchWindow._filter_options: the children with their new Visibility
filter_options(children, option_filter) ==
    [k \in 1..Len(children) |->
        [children[k] EXCEPT !.Visibility =
            IF option_filter # <<>>
               /\ ~Contains(Lower(children[k].Content), Lower(option_filter))
            THEN "Collapsed" ELSE "Visible"]]

\* CommandSwitchWindow._get_active_button: a position of children, 0 for None;
\* focused is the position of the child that has the focus, 0 when none has
get_active_button(children, focused) ==
    LET buttons == SelectSeq([k \in 1..Len(children) |-> k],
                             LAMBDA k : children[k].Visibility = "Visible")
    IN  IF Len(buttons) = 1 THEN buttons[1]
        ELSE IF focused \in Range(buttons) THEN focused ELSE 0

\* CommandSwitchWindow._setup: the loop over the switches reads the name
\* option before the loop over the options has bound it, so it raises as soon
\* as there is a switch and configs is not empty
SwitchInit ==
    /\ NoWindowFields
    /\ NoListFields /\ NoSearchFields /\ NoProgressFields
    /\ dlg = "switch"
    /\ closed_by = "none"
    /\ search_tb = <<>>
    /\ sender = 0
    /\ _context \in SeqUpTo(OptionNames, MaxContext)
    /\ _switches \in SeqUpTo(SwitchNames, MaxSwitches)
    /\ configs \in ConfigChoices
    /\ IF _switches # <<>> /\ configs # <<>>
       THEN /\ win = "error"
            /\ button_list = <<>>
            /\ response = None
       ELSE /\ win = "open"
            /\ button_list =
                  [k \in 1..Len(_switches) |-> MakeToggle(_switches[k])]
                  \o [k \in 1..Len(_context) |-> MakeButton(_context[k], configs)]
            /\ response = setup_response(_switches, button_list, None)

\* the user clicks the ToggleButton at position k
switch_click_toggle(k) ==
    /\ dlg = "switch" /\ win = "open"
    /\ k \in 1..Len(button_list)
    /\ button_list[k].kind = "toggle"
    /\ button_list[k].Visibility = "Visible"
    /\ button_list' = [button_list EXCEPT ![k].IsChecked = ~@]
    /\ UNCHANGED windowVars
    /\ UNCHANGED <<baseVars, listVars, _switches, configs, sender, searchVars,
                   progressVars>>

\* CommandSwitchWindow.search_txt_changed, after the user changed the text
switch_search_txt_changed(txt) ==
    /\ dlg = "switch" /\ win = "open"
    /\ txt # search_tb
    /\ search_tb' = txt
    /\ button_list' = filter_options(button_list, txt)
    /\ UNCHANGED windowVars
    /\ UNCHANGED <<dlg, win, closed_by, response, listVars, _switches, configs,
                   sender, searchVars, progressVars>>

\* CommandSwitchWindow.handle_input_key with Key.Escape: a search text is
\* cleared (which runs search_txt_changed), an empty one closes the window
switch_handle_input_key_Escape ==
    /\ dlg = "switch" /\ win = "open"
    /\ IF search_tb # <<>>
       THEN /\ search_tb' = <<>>
            /\ button_list' = filter_options(button_list, <<>>)
            /\ UNCHANGED <<win, closed_by>>
       ELSE /\ win' = "closed"
            /\ closed_by' = "escape"
            /\ UNCHANGED <<search_tb, button_list>>
    /\ UNCHANGED windowVars
    /\ UNCHANGED <<dlg, response, listVars, _switches, configs, sender,
                   searchVars, progressVars>>

\* CommandSwitchWindow.process_option(sender, args): the window closes, and a
\* sender that is not None gives the response
process_option(k) ==
    /\ win' = "closed"
    /\ sender' = k
    /\ response' = IF k # 0
                   THEN setup_response(_switches, button_list,
                                       Str(button_list[k].Content))
                   ELSE response
    /\ UNCHANGED windowVars
    /\ UNCHANGED <<dlg, search_tb, listVars, _switches, configs, button_list,
                   searchVars, progressVars>>

\* the user clicks the option Button at position k
switch_click_option(k) ==
    /\ dlg = "switch" /\ win = "open"
    /\ k \in 1..Len(button_list)
    /\ button_list[k].kind = "button"
    /\ button_list[k].Visibility = "Visible"
    /\ closed_by' = "option"
    /\ process_option(k)

\* CommandSwitchWindow.handle_input_key with Key.Enter, the focus being on the
\* child at position focused (0: on no child)
switch_handle_input_key_Enter(focused) ==
    /\ dlg = "switch" /\ win = "open"
    /\ focused # 0 => /\ focused \in 1..Len(button_list)
                      /\ button_list[focused].Visibility = "Visible"
    /\ closed_by' = "enter"
    /\ process_option(get_active_button(button_list, focused))

\* CommandSwitchWindow.handle_click
handle_click ==
    /\ dlg = "switch" /\ win = "open"
    /\ win' = "closed"
    /\ closed_by' = "click"
    /\ UNCHANGED windowVars
    /\ UNCHANGED <<dlg, response, search_tb, listVars, switchVars, searchVars,
                   progressVars>>

SwitchNext ==
    \/ \E k \in 1..(MaxSwitches + MaxContext) : switch_click_toggle(k)
    \/ \E txt \in SwitchSearchTexts : switch_search_txt_changed(txt)
    \/ switch_handle_input_key_Escape
    \/ \E k \in 1..(MaxSwitches + MaxContext) : switch_click_option(k)
    \/ \E f \in 0..(MaxSwitches + MaxContext) : switch_handle_input_key_Enter(f)
    \/ handle_click
    \/ close_window

SwitchSpec == SwitchInit /\ [][SwitchNext]_vars

-----------------------------------------------------------------------------
(* SearchPrompt *)

MaxDb == 2

\* the command names a search database is drawn from
SearchNames == { <<"A", "b">>, <<"a", " ", "b">>, <<"b", " ", "a">> }

SearchSwitchNames == { <<"/", "s">>, <<"/", "A">> }

\* what the user types into the search box
SearchTexts ==
    { <<>>, <<"a">>, <<"A", " ">>, <<"/", "s", " ", "a">>, <<"b", " ", "a">>,
      <<"/", "A", " ", "b">> }

\* kwargs.get('search_tip', '')
search_tip == <<>>

PyTrue == [t |-> "True"]

\* SearchPrompt.search_term
search_term(text) == Strip(Lower(text))

\* the loop of search_term_noswitch over the switches
RECURSIVE RemoveSwitches(_, _)
RemoveSwitches(term, switches) ==
    IF switches = <<>> THEN term
    ELSE RemoveSwitches(Replace(term, Lower(Head(switches)) \o <<" ">>, <<>>),
                        Tail(switches))

\* SearchPrompt.search_term_noswitch
search_term_noswitch(text, switches) ==
    Strip(RemoveSwitches(search_term(text), switches))

\* SearchPrompt.find_switch_match
find_switch_match(text, switches) ==
    SelectSeq(switches, LAMBDA sw : Contains(search_term(text), Lower(sw)))

\* dict.fromkeys(self._switches)
RECURSIVE DictFromKeys(_)
DictFromKeys(keys) ==
    IF keys = <<>> THEN <<>>
    ELSE DictSet(DictFromKeys(SubSeq(keys, 1, Len(keys) - 1)), keys[Len(keys)],
                 None)

\* for mswitch in matches: switch_dict[mswitch] = True
RECURSIVE SetAllTrue(_, _)
SetAllTrue(d, matches) ==
    IF matches = <<>> THEN d
    ELSE SetAllTrue(DictSet(d, Head(matches), PyTrue), Tail(matches))

\* SearchPrompt._setup_response: the new self.response
search_setup_response(text, switches, resp) ==
    IF switches # <<>>
    THEN Tuple(resp, SetAllTrue(DictFromKeys(switches),
                                find_switch_match(text, switches)))
    ELSE resp

\* a faulty variant of find_direct_match: the command name is compared as written
find_direct_match_cased(db, input_text) ==
    IF input_text # <<>>
    THEN SelectSeq(db, LAMBDA cmd_name : StartsWith(cmd_name, input_text))
    ELSE <<>>

\* SearchPrompt.find_direct_match
find_direct_match(db, input_text) ==
    IF input_text # <<>>
    THEN SelectSeq(db, LAMBDA cmd_name : StartsWith(Lower(cmd_name), input_text))
    ELSE <<>>

\* SearchPrompt.find_word_match
find_word_match(db, input_text) ==
    IF input_text # <<>>
    THEN LET cur_words == Split(input_text)
         IN  SelectSeq(db, LAMBDA cmd_name :
                 \A k \in 1..Len(cur_words) :
                     Contains(Lower(cmd_name), cur_words[k]))
    ELSE <<>>

\* SearchPrompt.set_search_results(*args): the new _search_results (the new
\* _result_index is 0)
RECURSIVE set_search_results(_)
set_search_results(args) ==
    IF args = <<>> THEN <<>>
    ELSE Sorted(Head(args)) \o set_search_results(Tail(args))

\* OrderedDict.fromkeys(xs).keys(): xs without its repetitions
RECURSIVE Unique(_)
Unique(xs) ==
    IF xs = <<>> THEN <<>>
    ELSE LET front == Unique(SubSeq(xs, 1, Len(xs) - 1))
         IN  IF xs[Len(xs)] \in Range(front) THEN front
             ELSE Append(front, xs[Len(xs)])

\* SearchPrompt.search_matches
search_matches(results) == Unique(results)

\* SearchPrompt.update_results_display(input_term): the fields it leaves, given
\* the results, the index and the response it finds; an empty input_term
\* stands for None as well
update_results_display(text, switches, results, index, resp, input_term) ==
    LET matches   == search_matches(results)
        res_cout  == Len(matches)
        index1    == IF index >= res_cout THEN 0 ELSE index
        index2    == IF index1 < 0 THEN res_cout - 1 ELSE index1
        term      == IF input_term = <<>>
                     THEN search_term_noswitch(text, switches) ELSE input_term
        icons     == [tab_icon |-> IF res_cout > 1 THEN "Visible" ELSE "Collapsed",
                      return_icon |-> IF res_cout = 1 THEN "Visible"
                                      ELSE "Collapsed"]
    IN  IF text = <<>>
        THEN [icons |-> icons, index |-> index2, directmatch_tb |-> search_tip,
              wordsmatch_tb |-> <<>>, response |-> resp]
        ELSE IF res_cout > 0
        THEN LET cur_res == matches[index2 + 1]
                 direct  == StartsWith(Lower(cur_res), term)
             IN  [icons |-> icons, index |-> index2,
                  directmatch_tb |->
                      IF direct
                      THEN text \o SubSeq(cur_res, Len(term) + 1, Len(cur_res))
                      ELSE <<>>,
                  wordsmatch_tb |->
                      IF direct THEN <<>> ELSE <<"-", " ">> \o cur_res,
                  response |-> search_setup_response(text, switches, Str(cur_res))]
        ELSE [icons |-> icons, index |-> index2, directmatch_tb |-> <<>>,
              wordsmatch_tb |-> <<>>,
              response |-> search_setup_response(text, switches, None)]

\* the fields update_results_display leaves are stored
StoreDisplay(d) ==
    /\ _result_index' = d.index
    /\ directmatch_tb' = d.directmatch_tb
    /\ wordsmatch_tb' = d.wordsmatch_tb
    /\ tab_icon' = d.icons.tab_icon
    /\ return_icon' = d.icons.return_icon
    /\ response' = d.response

\* SearchPrompt.__init__
SearchInit ==
    /\ NoWindowFields
    /\ NoListFields /\ NoSwitchFields /\ NoProgressFields
    /\ _context = <<>>
    /\ dlg = "search"
    /\ win = "open"
    /\ closed_by = "none"
    /\ \E search_db \in SeqUpTo(SearchNames, MaxDb) : _search_db = Sorted(search_db)
    /\ _switches \in SeqUpTo(SearchSwitchNames, MaxSwitches)
    /\ search_tb = <<>>
    /\ response = search_setup_response(<<>>, _switches, None)
    /\ _search_results = set_search_results(<<>>)
    /\ _result_index = 0
    /\ directmatch_tb = <<>> /\ wordsmatch_tb = <<>>
    /\ tab_icon = "Collapsed" /\ return_icon = "Collapsed"

\* SearchPrompt.search_txt_changed, after the user changed the text to txt
search_search_txt_changed(txt) ==
    /\ dlg = "search" /\ win = "open"
    /\ txt # search_tb
    /\ search_tb' = txt
    /\ LET input_term  == search_term_noswitch(txt, _switches)
           dmresults   == find_direct_match(_search_db, input_term)
           wordresults == find_word_match(_search_db, input_term)
           results     == set_search_results(<<dmresults, wordresults>>)
       IN  /\ _search_results' = results
           /\ StoreDisplay(update_results_display(txt, _switches, results, 0,
                                                  response, input_term))
    /\ UNCHANGED windowVars
    /\ UNCHANGED <<dlg, win, closed_by, listVars, switchVars, _search_db,
                   progressVars>>

\* SearchPrompt.handle_kb_key with Key.Tab, Key.Down (delta 1) or Key.Up
\* (delta -1)
handle_kb_key_move(delta) ==
    /\ dlg = "search" /\ win = "open"
    /\ StoreDisplay(update_results_display(search_tb, _switches, _search_results,
                                           _result_index + delta, response, <<>>))
    /\ UNCHANGED windowVars
    /\ UNCHANGED <<dlg, win, closed_by, search_tb, listVars, switchVars,
                   _search_db, _search_results, progressVars>>

\* a faulty variant of handle_kb_key_Escape: the response is not set up again
handle_kb_key_Escape_keeps ==
    /\ dlg = "search" /\ win = "open"
    /\ win' = "closed"
    /\ closed_by' = "escape"
    /\ UNCHANGED windowVars
    /\ UNCHANGED <<dlg, response, search_tb, listVars, switchVars, searchVars,
                   progressVars>>

\* SearchPrompt.handle_kb_key with Key.Escape
handle_kb_key_Escape ==
    /\ dlg = "search" /\ win = "open"
    /\ response' = search_setup_response(search_tb, _switches, None)
    /\ win' = "closed"
    /\ closed_by' = "escape"
    /\ UNCHANGED windowVars
    /\ UNCHANGED <<dlg, search_tb, listVars, switchVars, searchVars, progressVars>>

\* SearchPrompt.handle_kb_key with Key.Enter
handle_kb_key_Enter ==
    /\ dlg = "search" /\ win = "open"
    /\ win' = "closed"
    /\ closed_by' = "enter"
    /\ UNCHANGED windowVars
    /\ UNCHANGED <<dlg, response, search_tb, listVars, switchVars, searchVars,
                   progressVars>>

SearchNext ==
    \/ \E txt \in SearchTexts : search_search_txt_changed(txt)
    \/ \E delta \in {1, -1} : handle_kb_key_move(delta)
    \/ handle_kb_key_Escape
    \/ handle_kb_key_Enter
    \/ close_window

SearchSpec == SearchInit /\ [][SearchNext]_vars

-----------------------------------------------------------------------------
(* ProgressBar *)

\* the largest value given to update_progress
MaxProgress == 2

\* how many times one wait_async may find its worker alive
MaxPolls == 2

\* kwargs.get('step', 0)
StepChoices == {0, 2}

\* the callables given to wait_async: one that returns None, one that returns
\* 0, one that returns 7, one that raises
FuncChoices ==
    { [kind |-> "return", v |-> None],
      [kind |-> "return", v |-> [t |-> "int", v |-> 0]],
      [kind |-> "return", v |-> [t |-> "int", v |-> 7]],
      [kind |-> "raise", v |-> None] }

\* a faulty variant of is_alive: the thread counts as finished once func has returned
is_alive_until_return(w) == w = "started"

\* t.is_alive(): from start() until the thread's target has returned or raised
is_alive(w) == w \in {"started", "called", "appended"}

\* a faulty variant of wait_async_result: an empty list and a false value are not
\* told apart
wait_async_result_truthy(rets) ==
    IF rets # <<>> /\ rets[1] \notin {None, [t |-> "int", v |-> 0]}
    THEN rets[1] ELSE None

\* returns[0] if returns else None
wait_async_result(rets) == IF rets # <<>> THEN rets[1] ELSE None

\* thread th has written (or read) the fields fs
Noted(log, th, fs) == [log EXCEPT ![th] = @ \cup fs]

\* ProgressBar._update_pbar: the new pbar
update_pbar(maxv, newv) == [Maximum |-> maxv, Value |-> newv]

\* ProgressBar._setup
ProgressInit ==
    /\ NoWindowFields
    /\ NoListFields /\ NoSwitchFields /\ NoSearchFields
    /\ _context = <<>> /\ _switches = <<>>
    /\ dlg = "progress"
    /\ win = "open"
    /\ closed_by = "none"
    /\ response = None
    /\ search_tb = <<>>
    /\ max_value = 1
    /\ new_value = 0
    /\ step \in StepChoices
    /\ cancelled = FALSE
    /\ \E has_cancel \in BOOLEAN :
          cancel_b = [Content |-> "Cancel",
                      Visibility |-> IF has_cancel THEN "Visible" ELSE "Collapsed"]
    /\ indeterminate \in BOOLEAN
    /\ pbar = [Maximum |-> 1, Value |-> 0]
    /\ pc = "idle"
    /\ func = [kind |-> "none"]
    /\ worker = "none"
    /\ returns = <<>>
    /\ result = None
    /\ n_threads = 0 /\ n_calls = 0 /\ n_polls = 0 /\ n_dispatch = 0
    /\ writes = [th \in {"primary", "worker"} |-> {}]
    /\ reads = [th \in {"primary", "worker"} |-> {}]

\* a faulty variant of clicked_cancel: the click also stops the worker thread
clicked_cancel_interrupts ==
    /\ dlg = "progress"
    /\ cancel_b.Visibility = "Visible"
    /\ pc \in {"idle", "dispatch"}
    /\ cancel_b' = [cancel_b EXCEPT !.Content = "Cancelling..."]
    /\ cancelled' = TRUE
    /\ worker' = IF is_alive(worker) THEN "dead" ELSE worker
    /\ writes' = Noted(writes, "primary", {"cancelled", "cancel_b"})
    /\ UNCHANGED windowVars
    /\ UNCHANGED <<baseVars, listVars, switchVars, searchVars, max_value,
                   new_value, step, indeterminate, pbar, pc, func,
                   returns, result, n_threads, n_calls, n_polls, n_dispatch,
                   reads>>

\* ProgressBar.clicked_cancel: a click on the cancel button, handled by the
\* primary thread while it runs the dispatcher (in _dispatch_updater) or is
\* not in wait_async
clicked_cancel ==
    /\ dlg = "progress"
    /\ cancel_b.Visibility = "Visible"
    /\ pc \in {"idle", "dispatch"}
    /\ cancel_b' = [cancel_b EXCEPT !.Content = "Cancelling..."]
    /\ cancelled' = TRUE
    /\ writes' = Noted(writes, "primary", {"cancelled", "cancel_b"})
    /\ UNCHANGED windowVars
    /\ UNCHANGED <<baseVars, listVars, switchVars, searchVars, max_value,
                   new_value, step, indeterminate, pbar, pc, func, worker,
                   returns, result, n_threads, n_calls, n_polls, n_dispatch,
                   reads>>

\* ProgressBar.update_progress(new_value, max_value), called by the script on
\* the primary thread
update_progress(newv, maxv) ==
    /\ dlg = "progress"
    /\ pc = "idle"
    /\ max_value' = maxv
    /\ new_value' = newv
    /\ pbar' = IF newv = 0 \/ step <= 0 \/ newv % step = 0
               THEN update_pbar(maxv, newv) ELSE pbar
    /\ writes' = Noted(writes, "primary", {"max_value", "new_value"})
    /\ reads' = Noted(reads, "primary", {"max_value", "new_value"})
    /\ UNCHANGED windowVars
    /\ UNCHANGED <<baseVars, listVars, switchVars, searchVars, step, cancelled,
                   cancel_b, indeterminate, pc, func, worker, returns, result,
                   n_threads, n_calls, n_polls, n_dispatch>>

\* ProgressBar.reset
reset ==
    /\ dlg = "progress"
    /\ update_progress(0, 1)

\* ProgressBar.wait_async(func), up to t.start()
wait_async_start(f) ==
    /\ dlg = "progress"
    /\ pc = "idle"
    /\ func' = f
    /\ returns' = <<>>
    /\ indeterminate' = TRUE
    /\ worker' = "started"
    /\ pc' = "poll"
    /\ n_threads' = 1 /\ n_calls' = 0 /\ n_polls' = 0 /\ n_dispatch' = 0
    /\ writes' = Noted(writes, "primary", {"returns", "indeterminate"})
    /\ UNCHANGED windowVars
    /\ UNCHANGED <<baseVars, listVars, switchVars, searchVars, max_value,
                   new_value, step, cancelled, cancel_b, pbar, result, reads>>

\* ProgressBar.wait_async: the test t.is_alive() of the while loop
wait_async_poll ==
    /\ dlg = "progress"
    /\ pc = "poll"
    /\ IF is_alive(worker)
       THEN /\ n_polls < MaxPolls
            /\ n_polls' = n_polls + 1
            /\ pc' = "dispatch"
       ELSE /\ pc' = "return"
            /\ UNCHANGED n_polls
    /\ UNCHANGED windowVars
    /\ UNCHANGED <<baseVars, listVars, switchVars, searchVars, max_value,
                   new_value, step, cancelled, cancel_b, indeterminate, pbar,
                   func, worker, returns, result, n_threads, n_calls,
                   n_dispatch, writes, reads>>

\* ProgressBar.wait_async: the loop body, self._dispatch_updater()
wait_async_dispatch ==
    /\ dlg = "progress"
    /\ pc = "dispatch"
    /\ pbar' = update_pbar(max_value, new_value)
    /\ n_dispatch' = n_dispatch + 1
    /\ reads' = Noted(reads, "primary", {"max_value", "new_value"})
    /\ pc' = "poll"
    /\ UNCHANGED windowVars
    /\ UNCHANGED <<baseVars, listVars, switchVars, searchVars, max_value,
                   new_value, step, cancelled, cancel_b, indeterminate, func,
                   worker, returns, result, n_threads, n_calls, n_polls, writes>>

\* ProgressBar.wait_async: return returns[0] if returns else None
wait_async_return ==
    /\ dlg = "progress"
    /\ pc = "return"
    /\ result' = wait_async_result(returns)
    /\ reads' = Noted(reads, "primary", {"returns"})
    /\ pc' = "idle"
    /\ UNCHANGED windowVars
    /\ UNCHANGED <<baseVars, listVars, switchVars, searchVars, max_value,
                   new_value, step, cancelled, cancel_b, indeterminate, pbar,
                   func, worker, returns, n_threads, n_calls, n_polls,
                   n_dispatch, writes>>

\* the worker thread runs wrapped_f: the call f(*args, **kwargs), which
\* returns or raises (and then ends the thread)
worker_call ==
    /\ dlg = "progress"
    /\ worker = "started"
    /\ n_calls' = n_calls + 1
    /\ worker' = IF func.kind = "return" THEN "called" ELSE "dead"
    /\ UNCHANGED windowVars
    /\ UNCHANGED <<baseVars, listVars, switchVars, searchVars, max_value,
                   new_value, step, cancelled, cancel_b, indeterminate, pbar,
                   pc, func, returns, result, n_threads, n_polls, n_dispatch,
                   writes, reads>>

\* the worker thread runs wrapped_f: ret.append(<the value f returned>)
worker_append ==
    /\ dlg = "progress"
    /\ worker = "called"
    /\ returns' = Append(returns, func.v)
    /\ writes' = Noted(writes, "worker", {"returns"})
    /\ worker' = "appended"
    /\ UNCHANGED windowVars
    /\ UNCHANGED <<baseVars, listVars, switchVars, searchVars, max_value,
                   new_value, step, cancelled, cancel_b, indeterminate, pbar,
                   pc, func, result, n_threads, n_calls, n_polls, n_dispatch,
                   reads>>

\* the worker thread ends: wrapped_f has returned
worker_exit ==
    /\ dlg = "progress"
    /\ worker = "appended"
    /\ worker' = "dead"
    /\ UNCHANGED windowVars
    /\ UNCHANGED <<baseVars, listVars, switchVars, searchVars, max_value,
                   new_value, step, cancelled, cancel_b, indeterminate, pbar,
                   pc, func, returns, result, n_threads, n_calls, n_polls,
                   n_dispatch, writes, reads>>

ProgressNext ==
    \/ clicked_cancel
    \/ \E newv \in 0..MaxProgress, maxv \in 1..MaxProgress :
          update_progress(newv, maxv)
    \/ reset
    \/ \E f \in FuncChoices : wait_async_start(f)
    \/ wait_async_poll
    \/ wait_async_dispatch
    \/ wait_async_return
    \/ worker_call
    \/ worker_append
    \/ worker_exit

ProgressSpec == ProgressInit /\ [][ProgressNext]_vars

-----------------------------------------------------------------------------
(* Any of the dialogs *)

-----------------------------------------------------------------------------
(* WPFWindow: hide_element, show_element, toggle_element *)

MaxElements == 2

MaxArgs == 2

Visibility == {"Visible", "Collapsed", "Hidden"}

\* the loop of WPFWindow.hide_element and of WPFWindow.show_element: each
\* given element gets the visibility v
RECURSIVE set_visibility(_, _, _)
set_visibility(els, wpf_elements, v) ==
    IF wpf_elements = <<>> THEN els
    ELSE set_visibility([els EXCEPT ![Head(wpf_elements)] = v],
                        Tail(wpf_elements), v)

\* the loop of WPFWindow.toggle_element: the elements after the call and the
\* exception it ends with.  The method is a staticmethod, so the name self of
\* lines 151 and 153 is bound nowhere: the first given element that is
\* Visible or Collapsed ends the call with a NameError; an element of another
\* visibility is passed over
RECURSIVE toggle_element_loop(_, _)
toggle_element_loop(els, wpf_elements) ==
    IF wpf_elements = <<>> THEN [els |-> els, raised |-> "none"]
    ELSE IF els[Head(wpf_elements)] \in {"Visible", "Collapsed"}
         THEN [els |-> els, raised |-> "NameError"]
         ELSE toggle_element_loop(els, Tail(wpf_elements))

\* a window whose xaml gave it one or more elements
WindowInit ==
    /\ NoListFields /\ NoSwitchFields /\ NoSearchFields /\ NoProgressFields
    /\ _context = <<>> /\ _switches = <<>>
    /\ dlg = "window"
    /\ win = "open"
    /\ closed_by = "none"
    /\ response = None
    /\ search_tb = <<>>
    /\ elements \in SeqUpTo(Visibility, MaxElements) \ {<<>>}
    /\ raised = "none"
    /\ call = [op |-> "none", args |-> <<>>, before |-> <<>>]

\* the arguments a call may be given: positions of elements
ElementArgs == SeqUpTo(1..MaxElements, MaxArgs) \ {<<>>}

\* WPFWindow.hide_element(*wpf_elements)
hide_element(wpf_elements) ==
    /\ dlg = "window"
    /\ Range(wpf_elements) \subseteq DOMAIN elements
    /\ elements' = set_visibility(elements, wpf_elements, "Collapsed")
    /\ raised' = "none"
    /\ call' = [op |-> "hide_element", args |-> wpf_elements,
                before |-> elements]
    /\ UNCHANGED <<baseVars, listVars, switchVars, searchVars, progressVars>>

\* WPFWindow.show_element(*wpf_elements)
show_element(wpf_elements) ==
    /\ dlg = "window"
    /\ Range(wpf_elements) \subseteq DOMAIN elements
    /\ elements' = set_visibility(elements, wpf_elements, "Visible")
    /\ raised' = "none"
    /\ call' = [op |-> "show_element", args |-> wpf_elements,
                before |-> elements]
    /\ UNCHANGED <<baseVars, listVars, switchVars, searchVars, progressVars>>

\* WPFWindow.toggle_element(*wpf_elements)
toggle_element(wpf_elements) ==
    /\ dlg = "window"
    /\ Range(wpf_elements) \subseteq DOMAIN elements
    /\ LET r == toggle_element_loop(elements, wpf_elements)
       IN  /\ elements' = r.els
           /\ raised' = r.raised
    /\ call' = [op |-> "toggle_element", args |-> wpf_elements,
                before |-> elements]
    /\ UNCHANGED <<baseVars, listVars, switchVars, searchVars, progressVars>>

WindowNext ==
    \/ \E a \in ElementArgs : hide_element(a)
    \/ \E a \in ElementArgs : show_element(a)
    \/ \E a \in ElementArgs : toggle_element(a)

WindowSpec == WindowInit /\ [][WindowNext]_vars

-----------------------------------------------------------------------------
(* Any of the forms. *)

Init ==
    \/ ListInit \/ CheckInit \/ SwitchInit \/ SearchInit \/ ProgressInit
    \/ WindowInit

Next ==
    \/ ListNext \/ CheckNext \/ SwitchNext \/ SearchNext \/ ProgressNext
    \/ WindowNext

Spec == Init /\ [][Next]_vars

-----------------------------------------------------------------------------
(* Properties *)

\* x occurs in s when the case of the letters is ignored
ContainsIgnoreCase(s, x) ==
    \E i \in 1..(Len(s) - Len(x) + 1) :
        \A k \in 1..Len(x) : LowerChar(s[i + k - 1]) = LowerChar(x[k])

\* the string forms of the context items that contain the search text, in
\* context order
C1_ExpectedRows ==
    LET idx == Ascending({i \in 1..Len(_context) :
                             ContainsIgnoreCase(_context[i].s, search_tb)})
    IN  [k \in 1..Len(idx) |-> Str(_context[idx[k]].s)]

\* C1: in SelectFromList, whenever the search box holds a non-empty text X
\* (so the list was last bound by search_txt_changed), the list shown is
\* exactly the string forms of the context items whose string form contains X
\* ignoring case, in context order, whatever texts were typed before.
C1_FilterShowsMatches ==
    (dlg = "list" /\ search_tb # <<>>) => ItemsSource = C1_ExpectedRows

\* C1 witness: an upper-case search text has kept one row of a two-item
\* context and dropped the other
C1_Witness ==
    /\ dlg = "list" /\ win = "open"
    /\ search_tb = <<"a", "B">>
    /\ Len(_context) = 2
    /\ Len(ItemsSource) = 1

\* no two context items have the same string form
DistinctStrs(ctx) ==
    \A i, j \in 1..Len(ctx) : ctx[i].s = ctx[j].s => i = j

\* C2: in SelectFromList, when the select button closes the dialog, show
\* returns exactly the context items behind the rows the user has selected,
\* in context order.  Stated for contexts whose items have pairwise different
\* string forms, where each row stands for one item.
C2_ReturnsSelected ==
    (dlg = "list" /\ closed_by = "select" /\ DistinctStrs(_context)) =>
        response = ListOf(Ascending({shown_src[p] : p \in SelectedItems}))

\* the check boxes whose display text contains the search text, in context
\* order
C9_ExpectedRows ==
    Ascending({i \in 1..Len(_context) :
                  ContainsIgnoreCase(_context[i].str, search_tb)})

\* C9: in SelectFromCheckBoxes, whenever the search box holds a non-empty
\* text X, the check boxes shown are exactly the context items whose display
\* text (string form) contains X ignoring case, in context order, wrapped
\* items included.
C9_FilterShowsMatches ==
    (dlg = "check" /\ search_tb # <<>>) => ItemsSource = C9_ExpectedRows

\* C8: SelectFromCheckBoxes without checked_only: when the select button
\* closes the dialog, the response is the whole context, one entry per input
\* item in input order, and each entry's state is what the last check, uncheck
\* or toggle gesture that touched it left (its initial state when none did,
\* False for a wrapped item).
C8_ReturnsWholeContext ==
    (dlg = "check" /\ closed_by = "select" /\ ~checked_only) =>
        /\ response.t = "list"
        /\ Len(response.v) = Len(expected)
        /\ \A i \in 1..Len(expected) :
              /\ response.v[i].item = i
              /\ response.v[i].state = expected[i]

\* C8 witness: the dialog returned two entries while a filter hid one of
\* them, and a gesture has changed a state
C8_Witness ==
    /\ dlg = "check" /\ closed_by = "select" /\ ~checked_only
    /\ Len(response.v) = 2
    /\ Len(ItemsSource) = 1
    /\ \E i \in 1..2 : response.v[i].state /\ ~response.v[3 - i].state

\* C7: CommandSwitchWindow: a click on an option button makes show return
\* that option's name when no switches were given, and otherwise the pair of
\* the name and a dict whose keys are the switch names, each mapped to the
\* on/off state a toggle button of that name has at the click.
C7_OptionClickResponse ==
    (dlg = "switch" /\ closed_by = "option") =>
        LET name == Str(button_list[sender].Content)
        IN  IF _switches = <<>>
            THEN response = name
            ELSE /\ response.t = "tuple"
                 /\ response.a = name
                 /\ DOMAIN response.b = Range(_switches)
                 /\ \A n \in Range(_switches) :
                       \E k \in 1..Len(button_list) :
                          /\ button_list[k].kind = "toggle"
                          /\ button_list[k].Content = n
                          /\ button_list[k].IsChecked = response.b[n]

\* C7 witness: an option was clicked with two switches, one on and one off
C7_Witness ==
    /\ dlg = "switch" /\ closed_by = "option"
    /\ Len(_switches) = 2 /\ _switches[1] # _switches[2]
    /\ response.b[_switches[1]] /\ ~response.b[_switches[2]]

\* no element of xs is greater than a later one
IsSorted(xs) == \A i, j \in 1..Len(xs) : i < j => ~StrLess(xs[j], xs[i])

\* how often x occurs in xs
Count(xs, x) == Cardinality({k \in 1..Len(xs) : xs[k] = x})

\* the term is not empty and the name starts with it, in lower case
C10_IsPrefixMatch(name, term) ==
    /\ term # <<>>
    /\ Len(term) <= Len(name)
    /\ \A k \in 1..Len(term) : LowerChar(name[k]) = term[k]

\* the term is not empty and the name, in lower case, contains every piece of
\* the term between spaces
C10_IsWordMatch(name, term) ==
    /\ term # <<>>
    /\ \A w \in Range(Split(term)) : Contains(Lower(name), w)

\* xs holds exactly the database names that match the term (as a prefix when
\* prefix is TRUE, by its words otherwise), each as often as the database
\* does, in sorted order
C10_SortedMatches(xs, term, prefix) ==
    /\ IsSorted(xs)
    /\ \A name \in Range(_search_db) \cup Range(xs) :
          Count(xs, name) =
              IF (IF prefix THEN C10_IsPrefixMatch(name, term)
                  ELSE C10_IsWordMatch(name, term))
              THEN Count(_search_db, name) ELSE 0

\* the result list is the sorted prefix matches of the current text followed
\* by its sorted all-words matches
C10_ResultsOfCurrentText ==
    LET term == search_term_noswitch(search_tb, _switches)
    IN  /\ \E n \in 0..Len(_search_results) :
              /\ C10_SortedMatches(SubSeq(_search_results, 1, n), term, TRUE)
              /\ C10_SortedMatches(
                     SubSeq(_search_results, n + 1, Len(_search_results)),
                     term, FALSE)
        /\ term = <<>> => _search_results = <<>>

\* C10: SearchPrompt: in every state the result list is the sorted prefix
\* matches of the lower-case, switch-stripped current text followed by the
\* sorted all-words matches (so it depends on the current text and the
\* database only, and is empty for an empty term), and every change of the
\* text leaves the result index at 0.
C10_SearchResults ==
    /\ [](dlg = "search" => C10_ResultsOfCurrentText)
    /\ [][(dlg = "search" /\ search_tb' # search_tb) => _result_index' = 0]_vars

\* C10 witness: after a move of the index, a text with a switch has given a
\* prefix match followed by word matches
C10_Witness ==
    /\ dlg = "search"
    /\ search_tb = <<"/", "s", " ", "a">>
    /\ _switches # <<>>
    /\ Len(_search_results) = 3
    /\ _search_results[1] = <<"A", "b">>
    /\ _result_index = 0

\* None or an empty collection
IsNoneOrEmpty(r) == r = None \/ (r.t = "list" /\ r.v = <<>>)

\* the user dismissed the dialog: Escape, or the window was closed
Dismissed ==
    /\ dlg \in {"list", "check", "switch", "search"}
    /\ closed_by \in {"escape", "close"}

\* C3 as stated: a dialog dismissed with Escape or by closing the window
\* makes show return None or an empty collection, switches or not.
C3_DismissReturnsNothing == Dismissed => IsNoneOrEmpty(response)

\* C3 amended: a dismissed SelectFromList or SelectFromCheckBoxes returns
\* None; a dismissed CommandSwitchWindow returns None when it has no switches
\* and otherwise the pair of None and the dict that maps every switch to
\* False; a SearchPrompt dismissed with Escape returns None when it has no
\* switches and otherwise the pair of None and the dict that maps every
\* switch to True when the search term contains it (in lower case) and to
\* None when not.
C3_DismissResponse ==
    Dismissed =>
        CASE dlg \in {"list", "check"} -> response = None
          [] dlg = "switch" ->
                response = IF _switches = <<>> THEN None
                           ELSE Tuple(None, [n \in Range(_switches) |-> FALSE])
          [] dlg = "search" /\ closed_by = "escape" ->
                response =
                    IF _switches = <<>> THEN None
                    ELSE Tuple(None,
                               [n \in Range(_switches) |->
                                   IF Contains(Strip(Lower(search_tb)), Lower(n))
                                   THEN PyTrue ELSE None])
          [] OTHER -> TRUE

\* C3 witness: a SearchPrompt with switches was dismissed with Escape while
\* it showed a match for a text that names a switch
C3_Witness ==
    /\ Dismissed /\ dlg = "search" /\ closed_by = "escape"
    /\ _switches # <<>>
    /\ search_tb = <<"/", "s", " ", "a">>
    /\ _search_results # <<>>

\* the last wait_async has returned
Returned == pc = "idle" /\ n_threads = 1

\* C4: ProgressBar.wait_async: a call starts exactly one worker thread, which
\* runs the callable exactly once; every loop test that finds the worker
\* alive is followed by one _dispatch_updater call; the call does not get to
\* its return statement while the worker is alive, and it returns the value
\* the callable returned.
C4_WaitAsync ==
    dlg = "progress" =>
        /\ pc # "idle" => n_threads = 1
        /\ n_calls <= n_threads
        /\ (pc = "return" \/ Returned) => (worker = "dead" /\ n_calls = 1)
        /\ n_dispatch = IF pc = "dispatch" THEN n_polls - 1 ELSE n_polls
        /\ (Returned /\ func.kind = "return") => result = func.v

\* C4 witness: a wait_async has returned the 0 its callable returned, after
\* finding the worker alive at least once
C4_Witness ==
    /\ dlg = "progress" /\ Returned
    /\ func = [kind |-> "return", v |-> [t |-> "int", v |-> 0]]
    /\ result = [t |-> "int", v |-> 0]
    /\ n_polls >= 1

\* a step that changes the cancelled flag sets it, relabels the button and
\* leaves everything else, the worker included, as it is
C5_ClickOnlySetsFlag ==
    (dlg = "progress" /\ cancelled' # cancelled) =>
        /\ cancelled'
        /\ cancel_b' = [cancel_b EXCEPT !.Content = "Cancelling..."]
        /\ UNCHANGED <<max_value, new_value, step, indeterminate, pbar, pc,
                       func, worker, returns, result, n_threads, n_calls,
                       n_polls, n_dispatch>>

\* C5: ProgressBar cancel: a click on cancel only sets the cancelled flag (and
\* relabels the button); the worker is not interrupted, and a wait_async that
\* was cancelled still gets to its return statement only after the worker has
\* run the callable to its end and finished.
C5_CancelDoesNotInterrupt ==
    /\ [][C5_ClickOnlySetsFlag]_vars
    /\ []((dlg = "progress" /\ cancelled /\ (pc = "return" \/ Returned)) =>
             /\ worker = "dead"
             /\ n_calls = 1
             /\ func.kind = "return" => returns = <<func.v>>)

\* C5 witness: cancel was clicked inside a wait_async whose worker has not
\* called the callable yet
C5_Witness ==
    /\ dlg = "progress" /\ cancelled
    /\ pc = "dispatch" /\ worker = "started"

\* C6 as stated: the worker writes nothing that the primary thread reads, the
\* progress counters are written by the primary thread only.
C6_WorkerWritesNothingShared ==
    dlg = "progress" =>
        /\ writes["worker"] \cap reads["primary"] = {}
        /\ writes["worker"] \cap {"new_value", "max_value"} = {}

\* C6 amended: the worker's only write is the append to the list returns (at
\* most one element), which the primary thread created and reads in its
\* return statement, when the worker is no longer alive; the progress counters
\* and the cancelled flag are written by the primary thread only.
C6_SharedState ==
    dlg = "progress" =>
        /\ writes["worker"] \subseteq {"returns"}
        /\ Len(returns) <= 1
        /\ pc = "return" => worker = "dead"
        /\ (writes["worker"] \cup reads["worker"])
               \cap (writes["primary"] \cup reads["primary"])
               \subseteq {"returns"}

\* C6 witness: the primary thread has read the list the worker appended to
C6_Witness ==
    /\ dlg = "progress" /\ Returned
    /\ "returns" \in writes["worker"]
    /\ "returns" \in reads["primary"]
    /\ {"new_value", "max_value"} \subseteq writes["primary"]

-----------------------------------------------------------------------------
(* SelectFromCheckBoxes: check_all, uncheck_all, toggle_all *)

-----------------------------------------------------------------------------
(* WPFWindow.toggle_element *)

\* the visibility toggle_element is to give an element of visibility v
Toggled(v) ==
    CASE v = "Visible" -> "Collapsed"
      [] v = "Collapsed" -> "Visible"
      [] OTHER -> v

\* the last call was toggle_element with each element given at most once
ToggleCalled ==
    /\ dlg = "window"
    /\ call.op = "toggle_element"
    /\ \A i \in Range(call.args) : Count(call.args, i) = 1

\* C12: after toggle_element, every given element that was Visible is
\* Collapsed, every one that was Collapsed is Visible, every other element
\* has the visibility it had, and the call has ended without an exception;
\* a second toggle_element of the same elements leaves them as they were
\* before the first
C12_ToggleElement ==
    /\ [](ToggleCalled =>
            /\ raised = "none"
            /\ \A i \in DOMAIN elements :
                  elements[i] = IF i \in Range(call.args)
                                THEN Toggled(call.before[i])
                                ELSE call.before[i])
    /\ [][ (/\ ToggleCalled
            /\ toggle_element(call.args)
            /\ raised' = "none")
           => elements' = call.before ]_vars

-----------------------------------------------------------------------------
(* CommandSwitchWindow: config *)

\* the child of button_list of the given kind and content has the background
\* its entry of configs asks for
ConfigApplied(kind, name) ==
    \E k \in DOMAIN button_list :
        /\ button_list[k].kind = kind
        /\ button_list[k].Content = name
        /\ button_list[k].Background = set_config(configs[name])

\* C13: a CommandSwitchWindow created with switches and a config dict is
\* constructed without an error, every switch that has an entry in config has
\* that entry's background on its toggle button, and every option that has an
\* entry has it on its button
C13_ConfigApplied ==
    (dlg = "switch" /\ _switches # <<>>) =>
        /\ win # "error"
        /\ \A k \in DOMAIN _switches :
              _switches[k] \in DOMAIN configs =>
                  ConfigApplied("toggle", _switches[k])
        /\ \A k \in DOMAIN _context :
              _context[k] \in DOMAIN configs =>
                  ConfigApplied("button", _context[k])

====
